---------------------------- MODULE Spec2Model ----------------------------
(***************************************************************************)
(* Adaptive SIR engine (src/src/asir_core.py, class AdaptiveSIRSimulation).*)
(*                                                                         *)
(* One simulation instance: a networkx.Graph copy G, the per-node          *)
(* compartment state, the four probabilities, the recorded time series     *)
(* and the position of run() in its loop.                                  *)
(*                                                                         *)
(* Nodes are 1..n (the generators of the repository number them 0..n-1;    *)
(* 0 is kept free to mean "no node").  A probability p is the integer      *)
(* p*Den in 0..Den and a value of random.random() is d/Den with d in       *)
(* 0..Den-1, so "random.random() < p" is d < p: never true for p = 0,      *)
(* always true for p = 1.                                                  *)
(* Python sets of small integers are iterated in ascending order; the      *)
(* scans below follow that order.                                          *)
(*                                                                         *)
(* Specifications:                                                         *)
(*   Spec         construct, infect_random_node, run; every draw is a free *)
(*                choice                                                   *)
(*   SpecApi      infect_random_node, adaptive_step, epidemic_step called  *)
(*                in any order, on up to MaxSmallN nodes                   *)
(*   SpecRewire   infect_random_node and adaptive_step in any order        *)
(*   SpecAnyProbs Spec with the probabilities as the caller passes them    *)
(*   SpecRng      two simulations with a seed in one process: the draws    *)
(*                come from the generator of the random module             *)
(*   SpecRing     the seeded run on the ring lattice                       *)
(*   SpecCrowd    Spec on up to MaxSmallN nodes and on a graph of CrowdN    *)
(*                nodes                                                    *)
(*   SpecTrack    Spec with run called again and again on the instance,    *)
(*                with metrics tracking on or off, on up to MaxSmallN nodes*)
(*   SpecLive     Spec on up to MaxSmallN nodes, with the statements of    *)
(*                run() executed one after the other once it is called     *)
(***************************************************************************)
EXTENDS Integers, Sequences, FiniteSets, TLC

\* ------------------------------------------------------------------ bounds
MaxN == 4

MaxSteps == 2

Den == 2

MaxSeeds == 2

MaxSmallN == 3

MaxSeedValue == 2

RingN == 20

RingK == 2

RingSteps == 12

CrowdN == 53

\* --------------------------------------------------------------- constants
SUSCEPTIBLE == 0

INFECTED == 1

RECOVERED == 2

SampleCap == 50

Draws == 0 .. (Den - 1)

Probs == 0 .. Den

\* the values a caller can pass for a probability: -1/Den .. 1 + 1/Den
AnyProbs == (0 - 1) .. (Den + 1)

VARIABLES
    nodes,            \* self.G.nodes()
    G,                \* self.G.edges(): a set of edges, an edge is the set of its endpoints
    state,            \* self.state
    beta, gamma, alpha, mu,
    time_series,      \* self.time_series, as a sequence of records (t, S, I, R)
    network_metrics,  \* self.network_metrics, as a sequence of records of the four metrics
    track_network,    \* run(): argument track_network (FALSE before the first call)
    t, max_steps,     \* run(): local t and argument max_steps
    pc,               \* position of run(): "idle" before the call, "done" after the return
    draws,            \* number of calls of the random module made by the last step
    patient_zeros,    \* the nodes infect_random_node has returned
    edges_to_remove,  \* adaptive_step: local edges_to_remove of the last call
    nodes_to_check,   \* adaptive_step: local nodes_to_check of the last call
    edges_to_add,     \* adaptive_step: local edges_to_add of the last call, before list(set(...))
    edges_cut,        \* adaptive_step: first returned value
    edges_added,      \* adaptive_step: second returned value
    graph,            \* <<e>> when the caller keeps the graph e to construct a second
                      \* simulation from it, <<>> when it constructs one simulation
    seed,             \* the seed argument: <<>> for None, <<s>> for the integer s
    rng,              \* the state of the process-wide generator of the random module
    engine,           \* the class of the instance: "asir" or "sir" (SIRSimulation)
    sim,              \* 1 for the first simulation of the process, 2 for the second
    first,            \* <<>>, or <<r>> with the record r of the finished first simulation
    events            \* what happened around the second simulation: "early", "other"

vars == <<nodes, G, state, beta, gamma, alpha, mu, time_series, t, max_steps, pc,
          draws, patient_zeros, edges_to_remove, nodes_to_check, edges_to_add,
          edges_cut, edges_added, graph, seed, rng, engine, sim, first, events,
          network_metrics, track_network>>

simVars == <<nodes, beta, gamma, alpha, mu>>

runVars == <<time_series, t, max_steps, network_metrics, track_network>>

adaptVars == <<edges_to_remove, nodes_to_check, edges_to_add, edges_cut, edges_added>>

\* what lies outside the instance: the caller's graph and seed, the generator,
\* and the record of the simulations of the process
procVars == <<graph, seed, rng, engine, sim, first, events>>

\* the locals and the returned pair of adaptive_step exist while its result is
\* at hand; any other step leaves none
NoAdaptiveCall ==
    /\ edges_to_remove' = {}
    /\ nodes_to_check' = {}
    /\ edges_to_add' = <<>>
    /\ edges_cut' = 0
    /\ edges_added' = 0

\* ----------------------------------------------------------------- helpers
Min(a, b) == IF a < b THEN a ELSE b

RECURSIVE Pow(_, _)
Pow(b, e) == IF e = 0 THEN 1 ELSE b * Pow(b, e - 1)

\* the elements of a set of integers in ascending order
RECURSIVE SortedSeq(_)
SortedSeq(X) ==
    IF X = {} THEN <<>>
    ELSE LET m == CHOOSE x \in X : \A y \in X : x <= y
         IN  <<m>> \o SortedSeq(X \ {m})

Range(s) == {s[i] : i \in DOMAIN s}

\* all simple graphs on the node set V
SimpleGraphs(V) == SUBSET {e \in {{u, v} : u, v \in V} : Cardinality(e) = 2}

\* ------------------------------------------------------------ construction
\* the instance after __init__(graph, beta, gamma, alpha, mu): graph is the edge
\* set e on the nodes 1 .. n
Construct(n, e, b, g, a, m) ==
    /\ nodes = 1 .. n
    /\ G = e
    /\ state = [x \in nodes |-> SUSCEPTIBLE]
    /\ beta = b
    /\ gamma = g
    /\ alpha = a
    /\ mu = m
    /\ time_series = <<>>
    /\ network_metrics = <<>>
    /\ track_network = FALSE
    /\ t = 0
    /\ max_steps = 0
    /\ pc = "idle"
    /\ draws = 0
    /\ patient_zeros = {}
    /\ edges_to_remove = {}
    /\ nodes_to_check = {}
    /\ edges_to_add = <<>>
    /\ edges_cut = 0
    /\ edges_added = 0

\* one simulation, seed = None: the generator is not seeded and every draw is
\* a free choice, so its state is left out (rng stays 0)
OneUnseeded ==
    /\ graph = <<>>
    /\ seed = <<>>
    /\ rng = 0
    /\ engine = "asir"
    /\ sim = 1
    /\ first = <<>>
    /\ events = {}

Init ==
    /\ \E n \in 0 .. MaxN : \E e \in SimpleGraphs(1 .. n) :
          \E b, g, a, m \in Probs : Construct(n, e, b, g, a, m)
    /\ OneUnseeded

\* the same on a graph of at most MaxSmallN nodes
InitSmall ==
    /\ \E n \in 0 .. MaxSmallN : \E e \in SimpleGraphs(1 .. n) :
          \E b, g, a, m \in Probs : Construct(n, e, b, g, a, m)
    /\ OneUnseeded

\* __init__ assigns beta, gamma, alpha and mu as they are passed
InitAnyProbs ==
    /\ \E n \in 0 .. MaxSmallN : \E e \in SimpleGraphs(1 .. n) :
          \E b, g, a, m \in AnyProbs : Construct(n, e, b, g, a, m)
    /\ OneUnseeded

N == Cardinality(nodes)

\* the nodes within graph distance r of the set X
RECURSIVE Ball(_, _, _)
Ball(g, X, r) ==
    IF r = 0 THEN X
    ELSE LET B == Ball(g, X, r - 1)
         IN  B \cup {n \in nodes : \E b \in B : {n, b} \in g}

\* ------------------------------------------------------ infect_random_node
infect_random_node ==
    /\ pc = "idle"
    /\ nodes # {}
    /\ Cardinality(patient_zeros) < MaxSeeds
    /\ \E patient_zero \in nodes :
          /\ state' = [state EXCEPT ![patient_zero] = INFECTED]
          /\ patient_zeros' = patient_zeros \cup {patient_zero}
    /\ draws' = 1
    /\ UNCHANGED <<procVars, G, pc, simVars, runVars>>
    /\ NoAdaptiveCall

\* ------------------------------------------------------------ count_states
NodesIn(s) == {n \in nodes : state[n] = s}

\* a faulty count that walks the endpoints of self.G.edges() instead of
\* self.G.nodes(): a node without an edge is not counted
count_states_of_edges ==
    LET linked == {n \in nodes : \E e \in G : n \in e}
    IN  <<Cardinality(NodesIn(SUSCEPTIBLE) \cap linked),
          Cardinality(NodesIn(INFECTED) \cap linked),
          Cardinality(NodesIn(RECOVERED) \cap linked)>>

count_states ==
    <<Cardinality(NodesIn(SUSCEPTIBLE)), Cardinality(NodesIn(INFECTED)),
      Cardinality(NodesIn(RECOVERED))>>

\* ----------------------------------------------------------- adaptive_step
Neighbors(g, u) == {v \in nodes : {u, v} \in g}

HasEdge(g, u, w) == {u, w} \in g

\* a faulty test that has only the first half of the condition (networkx
\* reports an edge of integer nodes added in ascending order as (u, v), u < v)
IsSIEdge_first_half(e) ==
    \E u, v \in e :
        u < v /\ state[u] = SUSCEPTIBLE /\ state[v] = INFECTED

\* Rule 1: the edges of the list(self.G.edges()) snapshot that get a draw
IsSIEdge(e) ==
    \E u, v \in e :
        state[u] = SUSCEPTIBLE /\ state[v] = INFECTED

\* a faulty test that asks for an INFECTED endpoint only
CutCandidates_infected(g) == {e \in g : \E v \in e : state[v] = INFECTED}

CutCandidates(g) == {e \in g : IsSIEdge(e)}

\* a faulty comparison "random.random() <= self.alpha"
EdgesToRemove_le(g, d) == {e \in CutCandidates(g) : d[e] <= alpha}

\* edges_to_remove for the draws d
EdgesToRemove(g, d) == {e \in CutCandidates(g) : d[e] < alpha}

\* a faulty seed loop without the state tests: both endpoints become seeds
CutSeeds_both_endpoints(removed) ==
    {u \in nodes : \E e \in removed : u \in e}

\* Rule 2: the susceptible endpoints of the removed edges
CutSeeds(removed) ==
    {u \in nodes : state[u] = SUSCEPTIBLE /\ \E e \in removed : u \in e}

\* the sets random.sample(X, k) can return: the subsets of X with k elements
RECURSIVE Samples(_, _)
Samples(X, k) ==
    IF k = 0 THEN {{}}
    ELSE IF k = Cardinality(X) THEN {X}
    ELSE LET x == CHOOSE y \in X : TRUE
         IN  Samples(X \ {x}, k) \cup {Y \cup {x} : Y \in Samples(X \ {x}, k - 1)}

\* a faulty fallback that samples whether Rule 1 removed an edge or not: the
\* seeds of the cut are dropped
SeedChoices_always_sample(removed) ==
    LET susceptible_nodes == NodesIn(SUSCEPTIBLE)
        sample_size == Min(SampleCap, Cardinality(susceptible_nodes))
    IN  IF susceptible_nodes # {}
        THEN {[seeds |-> X, n |-> 1] : X \in Samples(susceptible_nodes, sample_size)}
        ELSE {[seeds |-> CutSeeds(removed), n |-> 0]}

\* the values nodes_to_check can take, and the number of random calls (0 or 1)
SeedChoices(removed) ==
    LET susceptible_nodes == NodesIn(SUSCEPTIBLE)
        sample_size == Min(SampleCap, Cardinality(susceptible_nodes))
    IN  IF CutSeeds(removed) = {} /\ susceptible_nodes # {}
        THEN {[seeds |-> X, n |-> 1] : X \in Samples(susceptible_nodes, sample_size)}
        ELSE {[seeds |-> CutSeeds(removed), n |-> 0]}

\* a faulty filter that lacks "w == u": the seed itself passes
OpenTriangles_with_seed(g, u, v) ==
    {w \in Neighbors(g, v) :
        ~ (state[w] # SUSCEPTIBLE \/ HasEdge(g, u, w))}

\* a faulty filter that lacks the state test of w
OpenTriangles_any_state(g, u, v) ==
    {w \in Neighbors(g, v) :
        ~ (w = u \/ HasEdge(g, u, w))}

\* a faulty inner loop that walks all nodes instead of the neighbours of v
OpenTriangles_all_nodes(g, u, v) ==
    {w \in nodes :
        ~ (w = u \/ state[w] # SUSCEPTIBLE \/ HasEdge(g, u, w))}

\* the w of the inner loop that reach the draw, for seed u and neighbour v
OpenTriangles(g, u, v) ==
    {w \in Neighbors(g, v) :
        ~ (w = u \/ state[w] # SUSCEPTIBLE \/ HasEdge(g, u, w))}

\* the w recorded for (u, v) under the draws d: the first one whose draw is
\* below mu (then the loop over w breaks), 0 when none is
FirstHit(g, u, v, d) ==
    LET hits == {w \in OpenTriangles(g, u, v) : d[w] < mu}
    IN  IF hits = {} THEN 0 ELSE CHOOSE w \in hits : \A x \in hits : w <= x

Hits(g, u, v) == {FirstHit(g, u, v, d) : d \in [OpenTriangles(g, u, v) -> Draws]}

\* draws made by the loop over w when it records hit
ScanDraws(g, u, v, hit) ==
    IF hit = 0 THEN Cardinality(OpenTriangles(g, u, v))
    ELSE Cardinality({w \in OpenTriangles(g, u, v) : w <= hit})

\* the (u, v) the two outer loops visit, in order
ScanPairs(g, seeds) ==
    LET vs(u) == SortedSeq({v \in Neighbors(g, u) : state[v] = SUSCEPTIBLE})
        RECURSIVE walk(_)
        walk(us) ==
            IF us = <<>> THEN <<>>
            ELSE [i \in 1 .. Len(vs(Head(us))) |-> <<Head(us), vs(Head(us))[i]>>]
                 \o walk(Tail(us))
    IN  walk(SortedSeq(seeds))

\* a faulty scan that adds each edge to the graph as soon as it is found: the
\* rest of the scan reads the graph with the additions made so far
RECURSIVE Scan_immediate(_, _, _)
Scan_immediate(g, pairs, i) ==
    IF i > Len(pairs) THEN {[edges |-> <<>>, n |-> 0]}
    ELSE LET u == pairs[i][1]
             v == pairs[i][2]
         IN  UNION {{[edges |-> (IF h = 0 THEN <<>> ELSE << <<u, h>> >>) \o r.edges,
                      n |-> ScanDraws(g, u, v, h) + r.n] :
                        r \in Scan_immediate(IF h = 0 THEN g ELSE g \cup {{u, h}},
                                             pairs, i + 1)} :
                    h \in Hits(g, u, v)}

\* every edges_to_add list the scan can build from position i of the pairs on,
\* with the number of draws it makes
RECURSIVE Scan(_, _, _)
Scan(g, pairs, i) ==
    IF i > Len(pairs) THEN {[edges |-> <<>>, n |-> 0]}
    ELSE LET u == pairs[i][1]
             v == pairs[i][2]
         IN  {[edges |-> (IF h = 0 THEN <<>> ELSE << <<u, h>> >>) \o r.edges,
               n |-> ScanDraws(g, u, v, h) + r.n] :
                  h \in Hits(g, u, v), r \in Scan(g, pairs, i + 1)}

\* self.G.add_edges_from(list(set(edges_to_add)))
AddEdgesFrom(g, edges) == g \cup {{e[1], e[2]} : e \in Range(edges)}

\* the edges_to_remove lists Rule 1 can build: one draw per candidate edge
CutOutcomes(g) == {EdgesToRemove(g, d) : d \in [CutCandidates(g) -> Draws]}

AdaptiveStepBody ==
    \E removed \in CutOutcomes(G) :
        LET g1 == G \ removed
        IN  \E sc \in SeedChoices(removed) :
            \E r \in Scan(g1, ScanPairs(g1, sc.seeds), 1) :
                /\ edges_to_remove' = removed
                /\ nodes_to_check' = sc.seeds
                /\ edges_to_add' = r.edges
                /\ G' = AddEdgesFrom(g1, r.edges)
                /\ edges_cut' = Cardinality(removed)
                /\ edges_added' = Cardinality(Range(r.edges))
                /\ draws' = Cardinality(CutCandidates(G)) + sc.n + r.n

adaptive_step ==
    /\ pc = "idle"
    /\ AdaptiveStepBody
    /\ UNCHANGED <<procVars, state, pc, patient_zeros, simVars, runVars>>

\* ----------------------------------------------------------- epidemic_step
\* a faulty count over all of self.G.nodes() instead of self.G.neighbors(node)
InfectedNeighbors_anywhere(n) == {m \in nodes \ {n} : state[m] = INFECTED}

\* a faulty count on the graph as it was before the cuts of the phase
InfectedNeighbors_before_cut(n) ==
    {m \in Neighbors(G \cup edges_to_remove, n) : state[m] = INFECTED}

InfectedNeighbors(n) == {m \in Neighbors(G, n) : state[m] = INFECTED}

\* a faulty test "if k_I > 1": one infected neighbour is not enough
Exposed_two ==
    {n \in NodesIn(SUSCEPTIBLE) : Cardinality(InfectedNeighbors(n)) > 1}

\* the susceptible nodes with k_I > 0: each gets one draw
Exposed ==
    {n \in NodesIn(SUSCEPTIBLE) : Cardinality(InfectedNeighbors(n)) > 0}

\* a faulty probability (1 - beta) ** k_I, the chance of escaping infection
InfectionHit_escape(k_I, d) ==
    d * Pow(Den, k_I) < Den * Pow(Den - beta, k_I)

\* random.random() < 1 - (1 - beta) ** k_I, for the draw d/Den and beta/Den
InfectionHit(k_I, d) ==
    d * Pow(Den, k_I) < Den * (Pow(Den, k_I) - Pow(Den - beta, k_I))

ToInfect(d) ==
    {n \in Exposed : InfectionHit(Cardinality(InfectedNeighbors(n)), d[n])}

\* a faulty comparison "random.random() > self.gamma"
ToRecover_gt(d) == {n \in NodesIn(INFECTED) : d[n] > gamma}

\* a faulty comparison "random.random() <= self.gamma"
ToRecover_le(d) == {n \in NodesIn(INFECTED) : d[n] <= gamma}

ToRecover(d) == {n \in NodesIn(INFECTED) : d[n] < gamma}

\* a faulty commit that returns the recovering nodes to SUSCEPTIBLE (SIS)
Commit_sis(to_infect, to_recover) ==
    [n \in nodes |-> IF n \in to_recover THEN SUSCEPTIBLE
                     ELSE IF n \in to_infect THEN INFECTED
                     ELSE state[n]]

\* the two commit loops: infections first, then recoveries
Commit(to_infect, to_recover) ==
    [n \in nodes |-> IF n \in to_recover THEN RECOVERED
                     ELSE IF n \in to_infect THEN INFECTED
                     ELSE state[n]]

\* a faulty step that applies the recovery marks before the infection pass: a
\* node that recovers in this step no longer counts as an infected neighbour
EpidemicOutcomes_recover_first ==
    {[n \in nodes |->
         IF n \in ToRecover(dR) THEN RECOVERED
         ELSE IF n \in ToInfect(dI) /\ InfectedNeighbors(n) \ ToRecover(dR) # {}
              THEN INFECTED
         ELSE state[n]] :
        dI \in [Exposed -> Draws], dR \in [NodesIn(INFECTED) -> Draws]}

\* the states one step can commit: one draw per exposed node, one per infected node
EpidemicOutcomes ==
    {Commit(ToInfect(dI), ToRecover(dR)) :
        dI \in [Exposed -> Draws], dR \in [NodesIn(INFECTED) -> Draws]}

EpidemicStepBody ==
    /\ state' \in EpidemicOutcomes
    /\ draws' = Cardinality(Exposed) + Cardinality(NodesIn(INFECTED))

epidemic_step ==
    /\ pc = "idle"
    /\ EpidemicStepBody
    /\ UNCHANGED <<procVars, G, pc, patient_zeros, simVars, runVars>>
    /\ NoAdaptiveCall

\* --------------------------------------------------------------------- run
\* a faulty call that keeps the entries the series hold
RunCall_keep(ms, tn) ==
    /\ max_steps' = ms
    /\ track_network' = tn
    /\ t' = 0
    /\ pc' = "while"
    /\ draws' = 0
    /\ UNCHANGED <<procVars, G, state, patient_zeros, simVars, time_series, network_metrics>>
    /\ NoAdaptiveCall

\* run(max_steps=ms, track_network=tn) up to the loop: t = 0 and the two
\* series are reset
RunCall(ms, tn) ==
    /\ max_steps' = ms
    /\ track_network' = tn
    /\ t' = 0
    /\ time_series' = <<>>
    /\ network_metrics' = <<>>
    /\ pc' = "while"
    /\ draws' = 0
    /\ UNCHANGED <<procVars, G, state, patient_zeros, simVars>>
    /\ NoAdaptiveCall

\* the call of the batch driver, which passes track_network=False
run ==
    /\ pc = "idle"
    /\ \E ms \in 0 .. MaxSteps : RunCall(ms, FALSE)

\* a call with any arguments, the first one or a later one on the same instance
tracked_run ==
    /\ pc \in {"idle", "done"}
    /\ \E ms \in 0 .. MaxSteps : \E tn \in BOOLEAN : RunCall(ms, tn)

\* ------------------------------------------------- compute_network_metrics
RECURSIVE Gcd(_, _)
Gcd(a, b) == IF b = 0 THEN a ELSE Gcd(b, a % b)

\* the float a / b, kept as the fraction in lowest terms
Ratio(a, b) == <<a \div Gcd(a, b), b \div Gcd(a, b)>>

RatioAdd(x, y) == Ratio(x[1] * y[2] + y[1] * x[2], x[2] * y[2])

\* a faulty count of the adjacency entries: every edge is counted from both ends
number_of_edges_both_ends(g) == 2 * Cardinality(g)

number_of_edges(g) == Cardinality(g)

\* nx.clustering of node v: 2 T / (d (d - 1)), 0 for a degree below 2
clustering(g, v) ==
    LET d == Cardinality(Neighbors(g, v))
        T == Cardinality({e \in g : e \subseteq Neighbors(g, v)})
    IN  IF d < 2 THEN <<0, 1>> ELSE Ratio(2 * T, d * (d - 1))

RECURSIVE SumClustering(_, _)
SumClustering(g, V) ==
    IF V = {} THEN <<0, 1>>
    ELSE LET v == CHOOSE x \in V : TRUE
         IN  RatioAdd(clustering(g, v), SumClustering(g, V \ {v}))

\* nx.average_clustering divides by the node count; on the graph without
\* nodes it raises ZeroDivisionError, which the bare except turns into 0
average_clustering(g) ==
    IF N = 0 THEN <<0, 1>>
    ELSE Ratio(SumClustering(g, nodes)[1], SumClustering(g, nodes)[2] * N)

number_connected_components(g) == Cardinality({Ball(g, {n}, N) : n \in nodes})

compute_network_metrics ==
    [avg_degree |-> IF number_of_edges(G) > 0 THEN Ratio(2 * number_of_edges(G), N)
                    ELSE <<0, 1>>,
     clustering |-> average_clustering(G),
     num_edges |-> number_of_edges(G),
     num_components |-> number_connected_components(G)]

Entry(time, counts) == [t |-> time, S |-> counts[1], I |-> counts[2], R |-> counts[3]]

\* while t < max_steps: count and record
run_record ==
    /\ pc = "while"
    /\ t < max_steps
    /\ time_series' = Append(time_series, Entry(t, count_states))
    /\ network_metrics' = IF track_network
                          THEN Append(network_metrics, compute_network_metrics)
                          ELSE network_metrics
    /\ pc' = "check"
    /\ draws' = 0
    /\ UNCHANGED <<procVars, G, state, t, max_steps, track_network, patient_zeros, simVars>>
    /\ NoAdaptiveCall

\* the loop condition fails: return
run_cap ==
    /\ pc = "while"
    /\ ~ (t < max_steps)
    /\ pc' = "done"
    /\ draws' = 0
    /\ UNCHANGED <<procVars, G, state, patient_zeros, simVars, runVars>>
    /\ NoAdaptiveCall

\* a faulty loop without the "if I == 0: break"
run_check_no_break ==
    /\ pc = "check"
    /\ pc' = "adaptive"
    /\ draws' = 0
    /\ UNCHANGED <<procVars, G, state, patient_zeros, simVars, runVars>>
    /\ NoAdaptiveCall

\* if I == 0: break (I is the count just recorded)
run_check ==
    /\ pc = "check"
    /\ pc' = IF time_series[Len(time_series)].I = 0 THEN "done" ELSE "adaptive"
    /\ draws' = 0
    /\ UNCHANGED <<procVars, G, state, patient_zeros, simVars, runVars>>
    /\ NoAdaptiveCall

\* a faulty rewiring phase whose scan never leaves its loop
run_adaptive_endless ==
    /\ pc = "adaptive"
    /\ UNCHANGED vars

run_adaptive ==
    /\ pc = "adaptive"
    /\ AdaptiveStepBody
    /\ pc' = "epidemic"
    /\ UNCHANGED <<procVars, state, patient_zeros, simVars, runVars>>

\* a faulty epidemic phase that also takes the edges of the nodes marked for
\* recovery out of the graph
run_epidemic_isolating ==
    /\ pc = "epidemic"
    /\ EpidemicStepBody
    /\ G' = {e \in G : \A n \in e : ~ (state[n] = INFECTED /\ state'[n] = RECOVERED)}
    /\ pc' = "inc"
    /\ UNCHANGED <<procVars, patient_zeros, simVars, runVars>>
    /\ NoAdaptiveCall

run_epidemic ==
    /\ pc = "epidemic"
    /\ EpidemicStepBody
    /\ pc' = "inc"
    /\ UNCHANGED <<procVars, G, patient_zeros, simVars, runVars>>
    /\ NoAdaptiveCall

run_inc ==
    /\ pc = "inc"
    /\ t' = t + 1
    /\ pc' = "while"
    /\ draws' = 0
    /\ UNCHANGED <<procVars, G, state, time_series, max_steps, patient_zeros, simVars>>
    /\ UNCHANGED <<network_metrics, track_network>>
    /\ NoAdaptiveCall

\* ---------------------------------------------------- the random module
\* The generator of the random module is process-wide: __init__ seeds it
\* (random.seed(seed)) and every random.random(), random.choice() and
\* random.sample() of every instance advances it.  It is kept as a full-period
\* congruential generator on 16 states: what matters is that the values are a
\* function of the seed and of the number of calls made since.
SeedValues == 1 .. MaxSeedValue

\* the states of the generator
RngStates == 0 .. 15

\* the generator state after random.seed(s)
Seeded(s) == s % 16

\* the generator state after one call
NextRandom(x) == (5 * x + 3) % 16

\* the value d of Draws the call in state x returns (random.random() = x/16)
RandomValue(x) == (x * Den) \div 16

RECURSIVE Advance(_, _)
Advance(x, k) == IF k = 0 THEN x ELSE Advance(NextRandom(x), k - 1)

\* the generator state after k calls; its cycle has 16 states
Skip(x, k) == Advance(x, k % 16)

\* the value of the call made after i other calls
Draw(x, i) == RandomValue(Skip(x, i))

\* the position of y in the ascending iteration of X, from 0
Rank(X, y) == Cardinality({x \in X : x < y})

\* random.choice(list(self.G.nodes())) in generator state x
Choice(x) == 1 + (x * N) \div 16

\* one patient zero per simulation, as run_multiple_asir_simulations seeds it
seeded_infect_random_node ==
    /\ pc = "idle"
    /\ nodes # {}
    /\ patient_zeros = {}
    /\ state' = [state EXCEPT ![Choice(rng)] = INFECTED]
    /\ patient_zeros' = {Choice(rng)}
    /\ rng' = NextRandom(rng)
    /\ draws' = 1
    /\ UNCHANGED <<G, pc, simVars, runVars, graph, seed, engine, sim, first, events>>
    /\ NoAdaptiveCall

\* Rule 1 walks list(self.G.edges()): by smaller endpoint, then by larger
EdgeKey(e) ==
    LET lo == CHOOSE u \in e : \A v \in e : u <= v
        hi == CHOOSE u \in e : \A v \in e : v <= u
    IN  lo * (N + 1) + hi

\* the draw of each S-I edge when Rule 1 starts in generator state x
CutDraws(g, x) ==
    [e \in CutCandidates(g) |->
        Draw(x, Cardinality({f \in CutCandidates(g) : EdgeKey(f) < EdgeKey(e)}))]

\* the scan of the pairs lo .. hi, started in generator state x: the first
\* half, then the second half from the generator state the first one leaves
RECURSIVE SeededScanRange(_, _, _, _, _)
SeededScanRange(g, pairs, lo, hi, x) ==
    IF lo > hi THEN [edges |-> <<>>, n |-> 0]
    ELSE IF lo = hi
    THEN LET u == pairs[lo][1]
             v == pairs[lo][2]
             ws == OpenTriangles(g, u, v)
             h == FirstHit(g, u, v, [w \in ws |-> Draw(x, Rank(ws, w))])
         IN  [edges |-> IF h = 0 THEN <<>> ELSE << <<u, h>> >>,
              n |-> ScanDraws(g, u, v, h)]
    ELSE LET mid == (lo + hi) \div 2
             l == SeededScanRange(g, pairs, lo, mid, x)
             r == SeededScanRange(g, pairs, mid + 1, hi, Skip(x, l.n))
         IN  [edges |-> l.edges \o r.edges, n |-> l.n + r.n]

\* the scan from position i of the pairs on, started in generator state x
SeededScan(g, pairs, i, x) == SeededScanRange(g, pairs, i, Len(pairs), x)

\* adaptive_step with its draws taken from the generator.  Up to SampleCap
\* susceptible nodes random.sample returns all of them, so SeedChoices has
\* one element; the call advances the generator once.
SeededAdaptiveStepBody ==
    LET k1 == Cardinality(CutCandidates(G))
        removed == EdgesToRemove(G, CutDraws(G, rng))
        g1 == G \ removed
        sc == CHOOSE c \in SeedChoices(removed) : TRUE
        r == SeededScan(g1, ScanPairs(g1, sc.seeds), 1, Skip(rng, k1 + sc.n))
    IN  /\ edges_to_remove' = removed
        /\ nodes_to_check' = sc.seeds
        /\ edges_to_add' = r.edges
        /\ G' = AddEdgesFrom(g1, r.edges)
        /\ edges_cut' = Cardinality(removed)
        /\ edges_added' = Cardinality(Range(r.edges))
        /\ draws' = k1 + sc.n + r.n
        /\ rng' = Skip(rng, k1 + sc.n + r.n)

\* epidemic_step with its draws taken from the generator: the exposed nodes
\* in node order, then the infected nodes in node order
SeededEpidemicStepBody ==
    LET k1 == Cardinality(Exposed)
        dI == [n \in Exposed |-> Draw(rng, Rank(Exposed, n))]
        dR == [n \in NodesIn(INFECTED) |-> Draw(rng, k1 + Rank(NodesIn(INFECTED), n))]
    IN  /\ state' = Commit(ToInfect(dI), ToRecover(dR))
        /\ draws' = k1 + Cardinality(NodesIn(INFECTED))
        /\ rng' = Skip(rng, k1 + Cardinality(NodesIn(INFECTED)))

\* ------------------------------- SIRSimulation (generate_sir_simulation.py)
\* SIRSimulation.step on the graph g and the node states st, in generator state x
sir_infected_neighbors(g, st, n) == {m \in nodes : {n, m} \in g /\ st[m] = INFECTED}

sir_exposed(g, st) ==
    {n \in nodes : st[n] = SUSCEPTIBLE /\ Cardinality(sir_infected_neighbors(g, st, n)) > 0}

sir_infected(st) == {n \in nodes : st[n] = INFECTED}

sir_to_infect(g, st, x) ==
    {n \in sir_exposed(g, st) :
        InfectionHit(Cardinality(sir_infected_neighbors(g, st, n)),
                     Draw(x, Rank(sir_exposed(g, st), n)))}

sir_to_recover(g, st, x) ==
    {n \in sir_infected(st) :
        Draw(x, Cardinality(sir_exposed(g, st)) + Rank(sir_infected(st), n)) < gamma}

\* the node states after step()
step_state(g, st, x) ==
    [n \in nodes |-> IF n \in sir_to_recover(g, st, x) THEN RECOVERED
                     ELSE IF n \in sir_to_infect(g, st, x) THEN INFECTED
                     ELSE st[n]]

\* the number of random.random() calls of step()
step_draws(g, st) == Cardinality(sir_exposed(g, st)) + Cardinality(sir_infected(st))

\* --------------------------------------------------------- summary queries
\* what a call gives back: the returned value, or the exception it raises
Returned(v) == [raises |-> "", value |-> v]

Raised(e) == [raises |-> e, value |-> 0]

MaxOf(X) == CHOOSE x \in X : \A y \in X : y <= x

\* the float R[-1] / self.N is kept as the pair <<R[-1], N>>, 0.0 as <<0, 1>>;
\* Python's "/" raises ZeroDivisionError for a zero divisor
get_final_size ==
    IF Len(time_series) = 0 THEN Returned(<<0, 1>>)
    ELSE IF N = 0 THEN Raised("ZeroDivisionError")
    ELSE Returned(<<time_series[Len(time_series)].R, N>>)

\* a faulty query without the empty-series test: max([]) raises ValueError
get_peak_infected_unguarded ==
    IF Len(time_series) = 0 THEN Raised("ValueError")
    ELSE Returned(MaxOf({time_series[i].I : i \in 1 .. Len(time_series)}))

get_peak_infected ==
    IF Len(time_series) = 0 THEN Returned(0)
    ELSE Returned(MaxOf({time_series[i].I : i \in 1 .. Len(time_series)}))

get_epidemic_duration == Returned(Len(time_series))

\* batch use (run_multiple_asir_simulations): construct, seed, run
Next ==
    \/ infect_random_node
    \/ run
    \/ run_record
    \/ run_cap
    \/ run_check
    \/ run_adaptive
    \/ run_epidemic
    \/ run_inc

Spec == Init /\ [][Next]_vars

\* the statements of run(): once run() is called the interpreter executes the
\* loop statement after statement, so a statement that can execute does
RunLoop ==
    \/ run_record
    \/ run_cap
    \/ run_check
    \/ run_adaptive
    \/ run_epidemic
    \/ run_inc

SpecLive == InitSmall /\ [][Next]_vars /\ WF_vars(RunLoop)

\* step-at-a-time use: construct, then seed and step in any order
NextApi ==
    \/ infect_random_node
    \/ adaptive_step
    \/ epidemic_step

SpecApi == InitSmall /\ [][NextApi]_vars

\* rewiring alone: construct, then seed and call adaptive_step in any order
NextRewire ==
    \/ infect_random_node
    \/ adaptive_step

SpecRewire == Init /\ [][NextRewire]_vars

\* batch use with the probabilities as passed, in range or not
SpecAnyProbs == InitAnyProbs /\ [][Next]_vars

\* a crowd: more susceptible nodes than the fallback of Rule 2 samples.  The
\* nodes 1, 2, 3 and the nodes 5, 6, 7 form a path each, every other node is
\* isolated
CrowdGraph == {{1, 2}, {2, 3}, {5, 6}, {6, 7}}

\* the nodes infect_random_node has returned on the crowd
CrowdPatients == {2, 4}

\* the crowd with beta = gamma = 0, constructed and seeded with MaxSeeds
\* patient zeros
InitCrowd ==
    /\ nodes = 1 .. CrowdN
    /\ G = CrowdGraph
    /\ state = [x \in nodes |-> IF x \in CrowdPatients THEN INFECTED ELSE SUSCEPTIBLE]
    /\ patient_zeros = CrowdPatients
    /\ beta = 0
    /\ gamma = 0
    /\ alpha \in Probs
    /\ mu \in Probs
    /\ time_series = <<>>
    /\ network_metrics = <<>>
    /\ track_network = FALSE
    /\ t = 0
    /\ max_steps = 0
    /\ pc = "idle"
    /\ draws = 1
    /\ edges_to_remove = {}
    /\ nodes_to_check = {}
    /\ edges_to_add = <<>>
    /\ edges_cut = 0
    /\ edges_added = 0
    /\ OneUnseeded

\* batch use on the small graphs and on the crowd
SpecCrowd == (InitSmall \/ InitCrowd) /\ [][Next]_vars

\* repeated runs on one instance, with or without metrics tracking
NextTrack ==
    \/ infect_random_node
    \/ tracked_run
    \/ run_record
    \/ run_cap
    \/ run_check
    \/ run_adaptive
    \/ run_epidemic
    \/ run_inc

SpecTrack == InitSmall /\ [][NextTrack]_vars

\* -------------------------------- two seeded simulations in one process
\* A caller constructs a simulation from a graph, the probabilities and a
\* seed, infects a patient zero and runs it; then it does the same with a
\* second simulation from the same arguments.  The instance variables hold
\* the simulation at work, first keeps what the first one ended with.  The
\* first simulation is an AdaptiveSIRSimulation or, with alpha = mu = 0, a
\* SIRSimulation; the second one is an AdaptiveSIRSimulation.
InitRng ==
    /\ \E n \in 0 .. MaxSmallN : \E e \in SimpleGraphs(1 .. n) :
          \E b, g, a, m \in Probs :
              /\ Construct(n, e, b, g, a, m)
              /\ graph = <<e>>
    /\ \E s \in SeedValues : seed = <<s>> /\ rng = Seeded(s)
    /\ engine \in {"asir", "sir"}
    /\ engine = "sir" => (alpha = 0 /\ mu = 0)
    /\ sim = 1
    /\ first = <<>>
    /\ events = {}

\* run(max_steps) of a seeded simulation; the second run gets the step cap of the first
paired_run ==
    /\ patient_zeros # {}
    /\ run
    /\ sim = 2 => max_steps' = first[1].max_steps

\* a faulty constructor "self.G = graph": the instance works on the caller's
\* object, so what it writes to self.G is written to the caller's graph
CallerGraphAfter_alias(g) == <<g>>

\* self.G = graph.copy(): the instance's graph is an object of its own, and
\* writing the edge set g to it leaves the caller's graph as it is
CallerGraphAfter(g) == graph

seeded_run_adaptive ==
    /\ pc = "adaptive"
    /\ engine = "asir"
    /\ SeededAdaptiveStepBody
    /\ pc' = "epidemic"
    /\ graph' = CallerGraphAfter(G')
    /\ UNCHANGED <<state, patient_zeros, simVars, runVars>>
    /\ UNCHANGED <<seed, engine, sim, first, events>>

seeded_run_epidemic ==
    /\ pc = "epidemic"
    /\ SeededEpidemicStepBody
    /\ pc' = "inc"
    /\ UNCHANGED <<G, patient_zeros, simVars, runVars>>
    /\ UNCHANGED <<graph, seed, engine, sim, first, events>>
    /\ NoAdaptiveCall

\* SIRSimulation.run: the statement after the break test is self.step()
sir_run_step ==
    /\ pc = "adaptive"
    /\ engine = "sir"
    /\ state' = step_state(G, state, rng)
    /\ draws' = step_draws(G, state)
    /\ rng' = Skip(rng, step_draws(G, state))
    /\ pc' = "inc"
    /\ UNCHANGED <<G, patient_zeros, simVars, runVars>>
    /\ UNCHANGED <<graph, seed, engine, sim, first, events>>
    /\ NoAdaptiveCall

\* The second simulation is constructed from the same arguments.  Its
\* __init__ touches shared state only by random.seed(seed): run after the
\* first simulation has finished it restarts the generator; run early (both
\* instances constructed before the first one is seeded and run) it leaves
\* the second simulation with the generator as the first one left it.
second_init ==
    /\ sim = 1
    /\ pc = "done"
    /\ first' = <<[time_series |-> time_series, G |-> G, state |-> state,
                   max_steps |-> max_steps, engine |-> engine]>>
    /\ sim' = 2
    /\ engine' = "asir"
    /\ \E early \in BOOLEAN :
          /\ early => engine = "asir"
          /\ events' = IF early THEN {"early"} ELSE {}
          /\ rng' = IF early THEN rng ELSE Seeded(seed[1])
    /\ G' = graph[1]
    /\ state' = [n \in nodes |-> SUSCEPTIBLE]
    /\ time_series' = <<>>
    /\ network_metrics' = <<>>
    /\ track_network' = FALSE
    /\ t' = 0
    /\ max_steps' = 0
    /\ pc' = "idle"
    /\ draws' = 0
    /\ patient_zeros' = {}
    /\ UNCHANGED <<simVars, graph, seed>>
    /\ NoAdaptiveCall

\* between two calls of the second simulation another instance is
\* constructed with a seed: its __init__ runs random.seed(s)
other_init ==
    /\ sim = 2
    /\ pc = "idle"
    /\ events = {}
    /\ first[1].engine = "asir"
    /\ \E s \in SeedValues : rng' = Seeded(s)
    /\ events' = {"other"}
    /\ UNCHANGED <<G, state, pc, draws, patient_zeros, simVars, runVars, adaptVars>>
    /\ UNCHANGED <<graph, seed, engine, sim, first>>

\* ... or another instance calls infect_random_node: one random.choice
other_infect_random_node ==
    /\ sim = 2
    /\ pc = "idle"
    /\ events = {}
    /\ first[1].engine = "asir"
    /\ rng' = NextRandom(rng)
    /\ events' = {"other"}
    /\ UNCHANGED <<G, state, pc, draws, patient_zeros, simVars, runVars, adaptVars>>
    /\ UNCHANGED <<graph, seed, engine, sim, first>>

NextRng ==
    \/ seeded_infect_random_node
    \/ paired_run
    \/ run_record
    \/ run_cap
    \/ run_check
    \/ seeded_run_adaptive
    \/ seeded_run_epidemic
    \/ sir_run_step
    \/ run_inc
    \/ second_init
    \/ other_init
    \/ other_infect_random_node

SpecRng == InitRng /\ [][NextRng]_vars

\* ------------------------------------------------- the ring-lattice scenario
\* the ring of n nodes, each linked to its k nearest neighbours on each side
RingLattice(n, k) ==
    {{a, b} : a, b \in 1 .. n} \cap
    {e \in SUBSET (1 .. n) :
        /\ Cardinality(e) = 2
        /\ \E a, b \in e : a < b /\ (b - a <= k \/ n - (b - a) <= k)}

\* beta = 1, gamma = alpha = mu = 0 on the ring lattice, with a seed for every
\* state of the generator
InitRing ==
    /\ Construct(RingN, RingLattice(RingN, RingK), Den, 0, 0, 0)
    /\ graph = <<RingLattice(RingN, RingK)>>
    /\ \E s \in RngStates : seed = <<s>> /\ rng = Seeded(s)
    /\ engine = "asir"
    /\ sim = 1
    /\ first = <<>>
    /\ events = {}

\* run(max_steps) with the step cap RingSteps
long_run ==
    /\ pc = "idle"
    /\ patient_zeros # {}
    /\ max_steps' = RingSteps
    /\ track_network' = FALSE
    /\ t' = 0
    /\ time_series' = <<>>
    /\ network_metrics' = <<>>
    /\ pc' = "while"
    /\ draws' = 0
    /\ UNCHANGED <<procVars, G, state, patient_zeros, simVars>>
    /\ NoAdaptiveCall

NextRing ==
    \/ seeded_infect_random_node
    \/ long_run
    \/ run_record
    \/ run_cap
    \/ run_check
    \/ seeded_run_adaptive
    \/ seeded_run_epidemic
    \/ run_inc

SpecRing == InitRing /\ [][NextRing]_vars

\* ------------------------------------------------------------- properties
lastI == time_series[Len(time_series)].I

\* C1 state conservation: in every entry run() has appended to the time series,
\* S-count + I-count + R-count is the node count N.
C1_StateConservation ==
    \A i \in DOMAIN time_series :
        time_series[i].S + time_series[i].I + time_series[i].R = N

\* a run that recorded a second entry with all three compartments occupied
C1_Witness ==
    /\ Len(time_series) >= 2
    /\ time_series[2].S > 0
    /\ time_series[2].I > 0
    /\ time_series[2].R > 0

LegalChange(a, b) ==
    \/ a = b
    \/ a = SUSCEPTIBLE /\ b = INFECTED
    \/ a = INFECTED /\ b = RECOVERED

\* C2 transition monotonicity: during a run, a step changes the state of a
\* node only from SUSCEPTIBLE to INFECTED or from INFECTED to RECOVERED, so no
\* node returns to a state it has left and RECOVERED is never left.
C2_TransitionMonotonicity ==
    [][pc # "idle" => \A n \in nodes : LegalChange(state[n], state'[n])]_vars

\* a node that was not seeded went from SUSCEPTIBLE through INFECTED to
\* RECOVERED during the run
C2_Witness ==
    /\ pc = "inc"
    /\ \E n \in nodes \ patient_zeros : state[n] = RECOVERED

\* C3 graph simplicity: after every rewiring phase (and so in every state, the
\* initial graph being simple) no edge is a self-loop and every edge has both
\* endpoints in the node set.  The edge set of a networkx.Graph holds an
\* unordered pair at most once.
C3_GraphSimplicity ==
    \A e \in G : Cardinality(e) = 2 /\ e \subseteq nodes

\* a rewiring phase of a run has just cut an edge and added an edge
C3_Witness ==
    /\ pc = "epidemic"
    /\ edges_cut > 0
    /\ edges_added > 0

\* C4 triadic closure correctness: every edge (u, w) Rule 2 adds in a step joins
\* two nodes that were SUSCEPTIBLE at the start of the step, that were not
\* adjacent before the step and that had a common SUSCEPTIBLE neighbour before
\* the step.
C4_TriadicClosure ==
    [][pc = "adaptive" =>
        \A i \in DOMAIN edges_to_add' :
            LET u == edges_to_add'[i][1]
                w == edges_to_add'[i][2]
            IN  /\ HasEdge(G', u, w)
                /\ state[u] = SUSCEPTIBLE
                /\ state[w] = SUSCEPTIBLE
                /\ ~ HasEdge(G, u, w)
                /\ \E v \in nodes :
                      /\ state[v] = SUSCEPTIBLE
                      /\ HasEdge(G, u, v)
                      /\ HasEdge(G, v, w)]_vars

\* Rule 2 has just added an edge next to a node that is not SUSCEPTIBLE: some
\* endpoint of the new edge has a neighbour that is INFECTED or RECOVERED
C4_Witness ==
    /\ pc = "epidemic"
    /\ \E i \in DOMAIN edges_to_add :
          \E x \in Neighbors(G, edges_to_add[i][2]) : state[x] # SUSCEPTIBLE

\* C5 at most one edge is proposed per seed node u in one rewiring phase: the
\* list of proposed edges holds at most one pair whose first component is u.
C5_OneProposalPerSeed ==
    \A u \in nodes :
        Cardinality({i \in DOMAIN edges_to_add : edges_to_add[i][1] = u}) <= 1

\* C6 the second value adaptive_step returns is the number of edges present
\* after the phase that were absent before the batch addition.
C6_AddedCount ==
    [][pc = "adaptive" =>
        edges_added' = Cardinality(G' \ (G \ edges_to_remove'))]_vars

\* C7 when run() has returned after k steps, it has recorded k + 1 entries with
\* t = 0, 1, ..., k (t is the number of steps executed).
C7_OneEntryPerStep ==
    pc = "done" =>
        /\ Len(time_series) = t + 1
        /\ \A i \in DOMAIN time_series : time_series[i].t = i - 1

\* C8 driver ordering: an iteration records first (the counts of the current
\* state, nothing else changes); then, when the recorded I-count is 0, run()
\* returns with no draw and no change of the graph or of a node state;
\* otherwise the rewiring phase comes first (node states and t untouched), the
\* epidemic phase second (graph and t untouched), the increment of t last; the
\* loop is left without a record once t has reached max_steps.
C8_DriverOrdering ==
    [][/\ (pc = "while" /\ t < max_steps) =>
             /\ pc' = "check"
             /\ time_series' = Append(time_series, Entry(t, count_states))
             /\ draws' = 0
             /\ UNCHANGED <<G, state, t>>
       /\ (pc = "while" /\ ~ (t < max_steps)) =>
             /\ pc' = "done"
             /\ t = max_steps
             /\ UNCHANGED <<G, state, t, time_series>>
       /\ (pc = "check" /\ lastI = 0) =>
             /\ pc' = "done"
             /\ draws' = 0
             /\ UNCHANGED <<G, state, t, time_series>>
       /\ (pc = "check" /\ lastI # 0) =>
             /\ pc' = "adaptive"
             /\ UNCHANGED <<G, state, t, time_series>>
       /\ pc = "adaptive" =>
             /\ pc' = "epidemic"
             /\ edges_cut' = Cardinality(G \ G')
             /\ UNCHANGED <<state, t, time_series>>
       /\ pc = "epidemic" =>
             /\ pc' = "inc"
             /\ UNCHANGED <<G, t, time_series>>
       /\ pc = "inc" =>
             /\ pc' = "while"
             /\ t' = t + 1
             /\ UNCHANGED <<G, state, time_series>>]_vars

\* a run that made a step and then stopped on a recorded I-count of 0, before
\* the step cap
C8_Witness ==
    /\ pc = "done"
    /\ 1 <= t
    /\ t < max_steps
    /\ lastI = 0

\* C9 degenerate reduction: with alpha = 0 and mu = 0 no step changes the edge
\* set, so the graph is the one of the construction at every point of the run.
C9_StaticGraph ==
    [][(alpha = 0 /\ mu = 0) => G' = G]_vars

\* with alpha = 0 and mu = 0, a rewiring phase has just run over a graph that
\* has an S-I edge to cut and an open triangle to close
C9_Witness ==
    /\ alpha = 0
    /\ mu = 0
    /\ pc = "epidemic"
    /\ CutCandidates(G) # {}
    /\ \E u \in nodes_to_check :
          \E v \in Neighbors(G, u) :
              state[v] = SUSCEPTIBLE /\ OpenTriangles(G, u, v) # {}

\* C10 no-spread boundary: with beta = 0 every node that is INFECTED or
\* RECOVERED is a seeded patient zero.
C10_NoSpread ==
    beta = 0 => \A n \in nodes : state[n] # SUSCEPTIBLE => n \in patient_zeros

\* with beta = 0, an epidemic step has just run with a susceptible node next
\* to an infected one
C10_Witness ==
    /\ beta = 0
    /\ pc = "inc"
    /\ Exposed # {}



\* the second simulation has returned from run()
SecondDone == sim = 2 /\ pc = "done"

\* C11: two simulations constructed with the same graph, probabilities and
\* seed, each seeded with a patient zero and run with the same step cap,
\* record the same series and end with the same graph and node states.
C11_Determinism ==
    (SecondDone /\ first[1].engine = "asir" /\ "other" \notin events) =>
        /\ time_series = first[1].time_series
        /\ G = first[1].G
        /\ state = first[1].state

\* C12: the series of a simulation is the same whether it runs alone or
\* another instance is constructed or seeded between its construction and
\* the end of its run.
C12_RunIsolation ==
    (SecondDone /\ first[1].engine = "asir" /\ "early" \notin events) =>
        time_series = first[1].time_series

\* C13: over the whole engine API (infect_random_node, adaptive_step,
\* epidemic_step in any order and number) a RECOVERED node stays RECOVERED
\* and an INFECTED node never becomes SUSCEPTIBLE again.
C13_RecoveredTerminalApi ==
    [][\A n \in nodes :
          /\ state[n] = RECOVERED => state'[n] = RECOVERED
          /\ state[n] = INFECTED => state'[n] # SUSCEPTIBLE]_vars




\* C17: a probability outside [0, 1] is reported at construction, so no
\* instance holds an out-of-range beta, gamma, alpha or mu, fresh or running.
C17_ParameterValidation ==
    /\ beta \in Probs
    /\ gamma \in Probs
    /\ alpha \in Probs
    /\ mu \in Probs


\* C14 as stated: with alpha = 0 and mu = 0, the same graph, beta, gamma,
\* step cap and seed, AdaptiveSIRSimulation.run records the series that
\* SIRSimulation.run records.
C14_SameSeedSameSeries ==
    (SecondDone /\ first[1].engine = "sir" /\ events = {}) =>
        time_series = first[1].time_series

\* C14 amended: with alpha = 0 and mu = 0 the adaptive engine keeps the edge
\* set of the caller's graph, and each of its epidemic steps is
\* SIRSimulation.step on that graph from the same node states and the same
\* generator state.
C14_StepwiseStatic ==
    [][(engine = "asir" /\ alpha = 0 /\ mu = 0) =>
          /\ G' = graph[1]
          /\ pc = "epidemic" =>
                /\ state' = step_state(graph[1], state, rng)
                /\ rng' = Skip(rng, step_draws(graph[1], state))]_vars

\* an adaptive run with alpha = mu = 0 whose epidemic step infected a node
C14_Witness ==
    /\ engine = "asir"
    /\ alpha = 0 /\ mu = 0
    /\ pc = "inc"
    /\ Cardinality(NodesIn(SUSCEPTIBLE)) < N - 1


\* C15: on the ring lattice with beta = 1 and gamma = alpha = mu = 0 the
\* infected set at time t is the set of nodes within graph distance t of the
\* patient zero, whatever the draws; every node is infected by step RingN / 2
\* (step 10); the recorded I-count never decreases; the run ends only at the
\* step cap.
C15_RingLattice ==
    (patient_zeros # {} /\ pc # "idle") =>
        /\ NodesIn(RECOVERED) = {}
        /\ NodesIn(INFECTED) = Ball(G, patient_zeros, IF pc = "inc" THEN t + 1 ELSE t)
        /\ \A i \in 1 .. Len(time_series) :
              /\ time_series[i].I = Cardinality(Ball(G, patient_zeros, i - 1))
              /\ i > 1 => time_series[i - 1].I <= time_series[i].I
              /\ time_series[i].t >= RingN \div 2 => time_series[i].I = RingN
        /\ pc = "done" => (t = max_steps /\ lastI = RingN)

\* the run from patient zero 1 ended at the step cap with every node infected
C15_Witness ==
    /\ patient_zeros = {1}
    /\ pc = "done"
    /\ Len(time_series) = RingSteps
    /\ time_series[2].I = 1 + 2 * RingK
    /\ lastI = RingN

\* zero edges, one patient zero, every other node SUSCEPTIBLE
Isolated ==
    /\ G = {}
    /\ Cardinality(patient_zeros) = 1
    /\ \A n \in nodes \ patient_zeros : state[n] = SUSCEPTIBLE

\* every entry has I = 1 and R = 0, but the last may have I = 0 and R = 1
OnePatientSeries(ts) ==
    \A i \in 1 .. Len(ts) :
        \/ ts[i].I = 1 /\ ts[i].R = 0
        \/ i = Len(ts) /\ ts[i].I = 0 /\ ts[i].R = 1

\* C16: in a run on a graph with zero edges and one patient zero, for any beta,
\* alpha and mu, no other node is ever infected, no edge is ever created, the
\* recorded I-count is 1 at every step until the patient zero recovers, and
\* with gamma = 0 the run stops only at the step cap.
C16_DisconnectedGraph ==
    [][(Isolated /\ pc # "idle") =>
          /\ G' = {}
          /\ \A n \in nodes \ patient_zeros : state'[n] = SUSCEPTIBLE
          /\ OnePatientSeries(time_series')
          /\ (gamma = 0 /\ pc' = "done") =>
                /\ t' = max_steps
                /\ \A n \in patient_zeros : state'[n] = INFECTED]_vars

\* a finished run on three or more isolated nodes with beta = mu = alpha = 1,
\* in which the patient zero recovered after the first step
C16_Witness ==
    /\ Isolated
    /\ pc = "done"
    /\ N >= 3
    /\ beta = Den /\ mu = Den /\ alpha = Den
    /\ Len(time_series) >= 2
    /\ lastI = 0

\* C18: on a graph without nodes, construction, run() and the three summary
\* queries complete without failure, the simulation takes zero steps and
\* every recorded count is 0.
C18_EmptyGraph ==
    nodes = {} =>
        /\ t = 0
        /\ pc \notin {"adaptive", "epidemic", "inc"}
        /\ \A i \in 1 .. Len(time_series) :
              time_series[i].S = 0 /\ time_series[i].I = 0 /\ time_series[i].R = 0
        /\ pc \in {"idle", "done"} =>
              /\ get_final_size.raises = ""
              /\ get_peak_infected.raises = ""
              /\ get_epidemic_duration.raises = ""

\* C19: run() started with no INFECTED node records exactly the entry
\* (t=0, S=N, I=0, R=0) and returns, for every step cap; it draws no random
\* number and leaves the graph and the node states unchanged.
C19_NoPatientZero ==
    [][(patient_zeros = {} /\ pc # "idle") =>
          /\ draws' = 0
          /\ G' = G
          /\ state' = state
          /\ pc' = "done" => time_series' = <<Entry(0, <<N, 0, 0>>)>>]_vars

C22_SummaryQueries ==
    (pc = "done" /\ Len(time_series) > 0) =>
        /\ get_final_size = Returned(<<time_series[Len(time_series)].R, N>>)
        /\ get_peak_infected.raises = ""
        /\ \A i \in DOMAIN time_series : time_series[i].I <= get_peak_infected.value
        /\ \E i \in DOMAIN time_series : time_series[i].I = get_peak_infected.value
        /\ get_epidemic_duration = Returned(Len(time_series))

\* C23: after run() has returned (with entries, on a graph with nodes),
\* get_final_size times N is the number of nodes that were INFECTED at any
\* time, patient zeros included.  A run starts with every node but the
\* patient zeros SUSCEPTIBLE and no node returns to SUSCEPTIBLE, so these are
\* the nodes that are no longer SUSCEPTIBLE.
C23_FinalSizeEverInfected ==
    (pc = "done" /\ Len(time_series) > 0 /\ N > 0) =>
        /\ get_final_size.raises = ""
        /\ get_final_size.value[1] * N =
              Cardinality(nodes \ NodesIn(SUSCEPTIBLE)) * get_final_size.value[2]

\* C24 the series are reset at the start of run: at every point of a call of
\* run(), the first or a later one on the same instance, the series hold the
\* entries this call has recorded and no other: t of them (t + 1 once the
\* entry of the current iteration is recorded), numbered t = 0, 1, 2, ...;
\* the metrics series holds as many with tracking, none without.
C24_SeriesReset ==
    pc # "idle" =>
        /\ pc = "while" => Len(time_series) = t
        /\ pc \in {"check", "adaptive", "epidemic", "inc"} => Len(time_series) = t + 1
        /\ pc = "done" => Len(time_series) \in {t, t + 1}
        /\ \A i \in DOMAIN time_series : time_series[i].t = i - 1
        /\ Len(network_metrics) = IF track_network THEN Len(time_series) ELSE 0

\* a later call with tracking has returned: its first entry counts a
\* RECOVERED node, which only a step of an earlier call can have produced
C24_Witness ==
    /\ pc = "done"
    /\ track_network
    /\ Len(time_series) >= 1
    /\ time_series[1].R > 0
    /\ Len(time_series) < MaxSteps

\* C25 metrics are sampled with the epidemic series: with tracking the metrics
\* series has the length of the (t,S,I,R) series after every step of a run,
\* without tracking it stays empty; the num_edges recorded with an entry is
\* the edge count of the graph at that moment, which is the graph the
\* rewiring of that iteration starts from; recorded metrics are not changed
\* afterwards.
C25_MetricsSampling ==
    [][/\ Len(network_metrics') = IF track_network' THEN Len(time_series') ELSE 0
       /\ (track_network /\ pc = "while" /\ pc' = "check") =>
             /\ network_metrics'[Len(network_metrics')].num_edges = Cardinality(G')
             /\ G' = G
       /\ (track_network /\ pc = "adaptive") =>
             network_metrics[Len(network_metrics)].num_edges = Cardinality(G)
       /\ pc \notin {"idle", "done"} =>
             \A i \in DOMAIN network_metrics : network_metrics'[i] = network_metrics[i]]_vars

\* a tracked run is in its second iteration, after a rewiring that changed the
\* number of edges: the metrics recorded last count the edges before it
C25_Witness ==
    /\ track_network
    /\ pc = "epidemic"
    /\ Len(network_metrics) = 2
    /\ network_metrics[2].num_edges # Cardinality(G)
    /\ network_metrics[2].num_edges # network_metrics[1].num_edges

\* C26 Rule 1: the edges a rewiring phase removes are edges of the graph as
\* it stood before the phase that join a SUSCEPTIBLE and an INFECTED node
\* (no S-S, I-I or R-incident edge is removed); each of those edges gets one
\* draw and is removed iff the draw is below alpha, so none is removed with
\* alpha = 0 and all are with alpha = 1; the first returned value is the
\* number of edges removed from the graph.
C26_EdgeCutting ==
    [][pc = "adaptive" =>
          /\ G \ G' = edges_to_remove'
          /\ edges_cut' = Cardinality(G \ G')
          /\ \A e \in G \ G' :
                \E u, v \in e : state[u] = SUSCEPTIBLE /\ state[v] = INFECTED
          /\ alpha = 0 => G \ G' = {}
          /\ alpha = Den =>
                \A u, v \in nodes :
                    (state[u] = SUSCEPTIBLE /\ state[v] = INFECTED) => {u, v} \notin G'
          /\ draws' >= Cardinality({e \in G : \E u, v \in e :
                                      state[u] = SUSCEPTIBLE /\ state[v] = INFECTED})]_vars

\* a rewiring phase has cut an S-I edge and kept another one, on a graph that
\* also has an edge between two INFECTED nodes and an edge at a RECOVERED node
C26_Witness ==
    /\ pc = "epidemic"
    /\ edges_cut > 0
    /\ CutCandidates(G) # {}
    /\ \E e \in G : \A v \in e : state[v] = INFECTED
    /\ \E e \in G : \E v \in e : state[v] = RECOVERED

\* C27 Rule 2 seed set: when Rule 1 removed an edge in this phase, the seed set
\* is the set of SUSCEPTIBLE endpoints of the removed edges (no sample
\* replaces it); when it removed none and SUSCEPTIBLE nodes exist, the seed
\* set is a set of min(SampleCap, number of SUSCEPTIBLE nodes) distinct
\* SUSCEPTIBLE nodes; when no SUSCEPTIBLE node exists, the seed set is empty
\* and no edge is added.
C27_SeedSet ==
    [][pc = "adaptive" =>
          /\ G \ G' # {} =>
                nodes_to_check' =
                    {u \in nodes : state[u] = SUSCEPTIBLE /\ \E e \in G \ G' : u \in e}
          /\ (G \ G' = {} /\ NodesIn(SUSCEPTIBLE) # {}) =>
                /\ nodes_to_check' \subseteq NodesIn(SUSCEPTIBLE)
                /\ Cardinality(nodes_to_check') =
                      Min(SampleCap, Cardinality(NodesIn(SUSCEPTIBLE)))
          /\ NodesIn(SUSCEPTIBLE) = {} =>
                /\ nodes_to_check' = {}
                /\ G' \ G = {}
                /\ edges_added' = 0]_vars

\* on the crowd Rule 1 removed nothing, the fallback sampled SampleCap of the
\* more than SampleCap susceptible nodes, and Rule 2 added an edge
C27_Witness ==
    /\ pc = "epidemic"
    /\ edges_cut = 0
    /\ Cardinality(NodesIn(SUSCEPTIBLE)) > SampleCap
    /\ Cardinality(nodes_to_check) = SampleCap
    /\ edges_added > 0

\* C28 Rule 2 scans pre-existing adjacency: every edge (u, w) a rewiring phase
\* proposes closes a path u-v-w whose two sides are edges of the graph as it
\* is after the removals of Rule 1 in this phase and before any addition of
\* this phase; no side is an edge removed by Rule 1 in this phase or an edge
\* added in the same batch.
C28_ScanPreExisting ==
    [][\A i \in DOMAIN edges_to_add' :
          LET u == edges_to_add'[i][1]
              w == edges_to_add'[i][2]
              g1 == G \ edges_to_remove'
          IN  /\ ~ HasEdge(g1, u, w)
              /\ \E v \in nodes \ {u, w} : HasEdge(g1, u, v) /\ HasEdge(g1, v, w)]_vars

\* a phase has added an edge (u, w) and left an open path x-w-u of
\* SUSCEPTIBLE nodes through it, with x a seed of the phase: a scan reading
\* the additions could have proposed (x, u)
C28_Witness ==
    \E i \in DOMAIN edges_to_add :
        \E x \in nodes_to_check \ {edges_to_add[i][1], edges_to_add[i][2]} :
            /\ state[x] = SUSCEPTIBLE
            /\ HasEdge(G, edges_to_add[i][2], x)
            /\ ~ HasEdge(G, edges_to_add[i][1], x)

\* C29 infection is evaluated on the post-rewiring graph: in the epidemic
\* phase of an iteration a SUSCEPTIBLE node becomes INFECTED only if it has
\* an INFECTED neighbour in the graph as the rewiring phase of the iteration
\* left it; a SUSCEPTIBLE node that lost an edge in the cut of this iteration
\* and has no S-I edge left stays SUSCEPTIBLE in this iteration.
C29_PostRewiringInfection ==
    [][pc = "epidemic" =>
          /\ \A n \in nodes :
                (state[n] = SUSCEPTIBLE /\ state'[n] = INFECTED) =>
                    \E x \in nodes : HasEdge(G, n, x) /\ state[x] = INFECTED
          /\ \A n \in nodes :
                (/\ state[n] = SUSCEPTIBLE
                 /\ \E e \in edges_to_remove : n \in e
                 /\ \A x \in nodes : HasEdge(G, n, x) => state[x] # INFECTED) =>
                    state'[n] = SUSCEPTIBLE]_vars

\* with beta = 1, the rewiring phase has cut every S-I edge of one susceptible
\* node and left an S-I edge at another one: the epidemic phase is next
C29_Witness ==
    /\ pc = "epidemic"
    /\ beta = Den
    /\ \E n \in NodesIn(SUSCEPTIBLE) :
          /\ \E e \in edges_to_remove : n \in e
          /\ InfectedNeighbors(n) = {}
    /\ \E n \in NodesIn(SUSCEPTIBLE) : InfectedNeighbors(n) # {}

\* C30 synchronous update: in one epidemic step the infection marks and the
\* recovery marks are computed from the node states before the step.  No node
\* goes from SUSCEPTIBLE to RECOVERED in one step and every node makes at most
\* one move (the mark sets are disjoint); a node becomes INFECTED only next to
\* a node that was INFECTED before the step, so a node infected in this step
\* infects nobody in this step; a node that recovers in this step still
\* counts as an infected neighbour: with beta = 1 every SUSCEPTIBLE node with
\* a neighbour INFECTED before the step becomes INFECTED, whether that
\* neighbour recovers or not; one draw is made per exposed node and one per
\* node INFECTED before the step.
C30_SynchronousUpdate ==
    [][pc = "epidemic" =>
          /\ \A n \in nodes : LegalChange(state[n], state'[n])
          /\ \A n \in nodes :
                (state[n] = SUSCEPTIBLE /\ state'[n] # SUSCEPTIBLE) =>
                    /\ state'[n] = INFECTED
                    /\ \E x \in nodes : HasEdge(G, n, x) /\ state[x] = INFECTED
          /\ beta = Den =>
                \A n \in nodes :
                    (/\ state[n] = SUSCEPTIBLE
                     /\ \E x \in nodes : HasEdge(G, n, x) /\ state[x] = INFECTED) =>
                        state'[n] = INFECTED
          /\ draws' = Cardinality({n \in nodes :
                                    /\ state[n] = SUSCEPTIBLE
                                    /\ \E x \in nodes :
                                          HasEdge(G, n, x) /\ state[x] = INFECTED})
                      + Cardinality({n \in nodes : state[n] = INFECTED})]_vars

\* the one node INFECTED before the step has recovered in it and has infected
\* a neighbour in it, while a susceptible neighbour of the new case stays
\* SUSCEPTIBLE
C30_Witness ==
    /\ pc = "inc"
    /\ lastI = 1
    /\ time_series[Len(time_series)].R = 0
    /\ NodesIn(RECOVERED) # {}
    /\ \E n \in NodesIn(INFECTED) :
          \E x \in Neighbors(G, n) : state[x] = SUSCEPTIBLE

\* C31 phase frames: the rewiring phase changes the edge set only: every node
\* keeps its compartment state, the node set is the same and every edge of
\* the new graph joins two of its nodes; the epidemic phase changes
\* compartment states only: the edge set and the node set are the same and
\* every node still has a state.
C31_PhaseFrames ==
    [][/\ pc = "adaptive" =>
             /\ state' = state
             /\ nodes' = nodes
             /\ UNION G' \subseteq nodes
       /\ pc = "epidemic" =>
             /\ G' = G
             /\ nodes' = nodes
             /\ DOMAIN state' = nodes]_vars

\* the second iteration of a run is between its two phases: the epidemic
\* phase of the first one changed node states (a node recovered, another one
\* was infected), the rewiring phase of the second one changed the edge set
C31_Witness ==
    /\ pc = "epidemic"
    /\ t = 1
    /\ edges_cut + edges_added > 0
    /\ NodesIn(RECOVERED) # {}
    /\ NodesIn(INFECTED) \ patient_zeros # {}

\* C32 no recovery with gamma = 0: in a run with gamma = 0 and at least one
\* patient zero, on any graph and for any beta, alpha and mu, no node is
\* RECOVERED and every recorded R-count is 0, every recorded I-count is at
\* least 1 and none is below the one before it, and run() returns only
\* because t has reached the step cap.
C32_NoRecovery ==
    (gamma = 0 /\ patient_zeros # {} /\ pc # "idle") =>
        /\ NodesIn(RECOVERED) = {}
        /\ NodesIn(INFECTED) # {}
        /\ \A i \in DOMAIN time_series :
              /\ time_series[i].R = 0
              /\ time_series[i].I >= 1
              /\ i > 1 => time_series[i - 1].I <= time_series[i].I
        /\ pc = "done" => t = max_steps

\* a run with gamma = 0 has returned at the step cap, after an iteration in
\* which the recorded I-count grew and one in which it stayed the same
C32_Witness ==
    /\ gamma = 0
    /\ pc = "done"
    /\ Len(time_series) = MaxSteps
    /\ time_series[1].I < time_series[2].I
    /\ NodesIn(SUSCEPTIBLE) # {}
    /\ Cardinality(NodesIn(INFECTED)) = time_series[2].I

\* C33 termination: for every step cap, graph, parameter setting and draw
\* sequence, a call of run() returns, having completed at most max_steps
\* iterations of a rewiring phase followed by an epidemic phase (t counts the
\* completed iterations and changes only by one, at the end of an iteration).
\* A phase that started and never came to its end would keep run() from
\* returning, so the return of every call also states that each rewiring
\* phase and each epidemic phase ends.
C33_Termination ==
    /\ [](pc # "idle" => t <= max_steps)
    /\ [][t' # t => \/ pc = "idle" /\ t' = 0
                    \/ pc = "inc" /\ t' = t + 1]_vars
    /\ (pc # "idle") ~> (pc = "done")

\* run() has returned because of the step cap alone: the cap's worth of
\* iterations is complete and nodes of all three states remain
C33_Witness ==
    /\ pc = "done"
    /\ max_steps = MaxSteps
    /\ t = max_steps
    /\ lastI > 0
    /\ gamma > 0
    /\ NodesIn(SUSCEPTIBLE) # {}
    /\ NodesIn(INFECTED) # {}
    /\ NodesIn(RECOVERED) # {}

\* C34 last entry is current: when run() has returned, the S-, I- and R-count
\* of the last entry of the time series are count_states() of the instance,
\* whether the run stopped on I = 0 or on the step cap.
C34_LastEntryCurrent ==
    (pc = "done" /\ time_series # <<>>) =>
        LET last == time_series[Len(time_series)]
        IN  <<last.S, last.I, last.R>> = count_states

\* C35 full isolation boundary: with alpha = 1 every edge between a
\* SUSCEPTIBLE and an INFECTED node is cut in the rewiring phase, so the
\* epidemic phase of the same step starts on a graph without such an edge, and
\* no node other than the patient zeros is ever INFECTED or RECOVERED, for
\* any beta, gamma, mu and graph.
C35_FullIsolation ==
    alpha = Den =>
        /\ \A n \in nodes : state[n] # SUSCEPTIBLE => n \in patient_zeros
        /\ pc = "epidemic" => \A e \in G : ~ IsSIEdge(e)

\* with alpha = 1 and beta = 1 a rewiring phase has cut two edges to INFECTED
\* nodes and the epidemic phase is about to run
C35_Witness ==
    /\ alpha = Den
    /\ beta = Den
    /\ pc = "epidemic"
    /\ edges_cut >= 2
    /\ NodesIn(INFECTED) # {}
    /\ \E n \in NodesIn(SUSCEPTIBLE) : \E e \in edges_to_remove : n \in e

\* C36 rewiring never merges connected components: every edge a rewiring phase
\* adds joins two nodes that have a common neighbour in the graph after the
\* cuts of that phase; so in every step of the program the nodes a node is
\* connected to afterwards were connected to it before (two nodes in
\* different components stay in different components), and a node without
\* an edge stays without one.
C36_NoComponentMerge ==
    [][/\ \A n \in nodes : Ball(G', {n}, N) \subseteq Ball(G, {n}, N)
       /\ \A n \in nodes : Neighbors(G, n) = {} => Neighbors(G', n) = {}
       /\ \A e \in G' \ G : \E v \in nodes \ e :
              \A x \in e : {x, v} \in G \ edges_to_remove']_vars

\* a rewiring phase has added an edge while a SUSCEPTIBLE node that had no
\* edge before the phase still has none
C36_Witness ==
    /\ edges_added > 0
    /\ \E n \in NodesIn(SUSCEPTIBLE) :
          /\ Neighbors(G, n) = {}
          /\ \A e \in edges_to_remove : n \notin e

\* C37 only susceptible nodes gain edges, recovered nodes are frozen: in no
\* step does a node that is INFECTED or RECOVERED gain a neighbour, and in no
\* step does the neighbour set of a RECOVERED node change at all; RECOVERED
\* is kept for the rest of the run, so from its recovery on the incident
\* edges of a node are fixed.
C37_RecoveredFrozen ==
    [][\A n \in nodes :
          /\ state[n] # SUSCEPTIBLE => Neighbors(G', n) \subseteq Neighbors(G, n)
          /\ state[n] = RECOVERED =>
                /\ Neighbors(G', n) = Neighbors(G, n)
                /\ state'[n] = RECOVERED]_vars

\* a rewiring phase has cut an edge while a RECOVERED node has a SUSCEPTIBLE
\* and an INFECTED neighbour
C37_Witness ==
    /\ pc = "epidemic"
    /\ edges_cut > 0
    /\ \E n \in NodesIn(RECOVERED) :
          /\ \E x \in Neighbors(G, n) : state[x] = SUSCEPTIBLE
          /\ \E x \in Neighbors(G, n) : state[x] = INFECTED

\* C20: before any run, get_final_size returns 0.0, get_peak_infected 0 and
\* get_epidemic_duration 0, and none of them fails.
C20_QueriesBeforeRun ==
    pc = "idle" =>
        /\ get_final_size.raises = ""
        /\ get_final_size.value[1] = 0
        /\ get_peak_infected = Returned(0)
        /\ get_epidemic_duration = Returned(0)

\* a constructed and seeded simulation on a graph with edges, not yet run
C20_Witness ==
    /\ pc = "idle"
    /\ patient_zeros # {}
    /\ G # {}

=============================================================================
